---- MODULE Spec2Model ----
(***************************************************************************)
(* Model of the Telegram front end for a Transmission daemon               *)
(* (src/bot.py, src/transmission_client.py).                               *)
(*                                                                         *)
(* Text is modelled by what decides the program's behaviour: a formatted   *)
(* string is a record of the pieces it was built from, and its character   *)
(* count is computed from those pieces the way the f-strings build it.     *)
(* A completion fraction (percent_done, 0.0 .. 1.0) is kept in whole       *)
(* percent, 0 .. 100.                                                      *)
(***************************************************************************)
EXTENDS Integers, Sequences, FiniteSets, TLC

(***************************************************************************)
(* Bounds of the model.                                                    *)
(***************************************************************************)
\* longest daemon item list of the whole-system specification
MaxTorrents == 2
\* longest daemon item list of the gateway specification
MaxGatewayTorrents == 2
\* longest daemon item list of the pagination specification
MaxPageTorrents == 3

(***************************************************************************)
(* Program constants.                                                      *)
(***************************************************************************)
ALLOWED_USER_ID == 800891816
\* len(message) > 4096: the transport's hard limit, the trigger of the split
HardLimit == 4096
\* len(current_part) + len(torrent_text) > 4000: the flush threshold
SoftLimit == 4000
\* percent_done < 1.0, in whole percent
FullPercent == 100
\* size_bytes < 1024.0 ; size_bytes /= 1024.0
UnitStep == 1024

\* the senders of inbound events: the operator and a stranger
Senders == {ALLOWED_USER_ID, ALLOWED_USER_ID + 1}

\* the status tokens the code names, and one it does not know
Statuses == {"stopped", "check_wait", "check", "download_wait", "downloading",
             "seed_wait", "seeding", "download_pending", "unknown"}

\* completion fractions of the daemon's items, in percent
Completions == {0, FullPercent}

\* completion fractions of the pagination specification
PageCompletions == {0}

\* name lengths of the pagination specification
PageNameLens == {10, 1848, 3880, 4000}

\* name lengths of the other specifications
NameLens == {10}

(***************************************************************************)
(* Formatter (src/bot.py)                                                  *)
(***************************************************************************)
RECURSIVE Digits(_)
\* the number of characters of str(n), n >= 0
Digits(n) == IF n < 10 THEN 1 ELSE 1 + Digits(n \div 10)

RECURSIVE Pow(_, _)
Pow(b, k) == IF k = 0 THEN 1 ELSE b * Pow(b, k - 1)

\* the units of format_size, in order; each has UnitLen characters
Units == <<"B", "KB", "MB", "GB", "TB">>
UnitLen(u) == IF u = "B" THEN 1 ELSE 2

RECURSIVE FormatSizeFrom(_, _)
\* format_size from unit k on: the first unit whose scaled value is below
\* 1024, PB after TB.  The value is kept in hundredths, rounded as .2f does
\* (sizes below 2^31 / 200, the evaluator's integers).
FormatSizeFrom(size_bytes, k) ==
    LET d == Pow(UnitStep, k - 1)
        hundredths == (2 * 100 * size_bytes + d) \div (2 * d)
    IN  IF k > Len(Units)
        THEN [hundredths |-> hundredths, unit |-> "PB"]
        ELSE IF size_bytes < UnitStep * d
             THEN [hundredths |-> hundredths, unit |-> Units[k]]
             ELSE FormatSizeFrom(size_bytes, k + 1)

format_size(size_bytes) == FormatSizeFrom(size_bytes, 1)

\* len(f"{x:.2f} {unit}")
SizeLen(s) == Digits(s.hundredths \div 100) + 3 + 1 + UnitLen(s.unit)

\* format_speed: format_size(x) + "/s"
format_speed(speed_bytes) == [size |-> format_size(speed_bytes), suffix |-> "/s"]
SpeedLen(s) == SizeLen(s.size) + 2

\* the statuses the label table of format_torrent_info knows
KnownLabels == {"stopped", "check_wait", "check", "download_wait",
                "downloading", "seed_wait", "seeding"}

\* status_text: the mapped label, or the fallback that embeds the raw token
StatusText(status) ==
    IF status \in KnownLabels
    THEN [known |-> TRUE, token |-> status]
    ELSE [known |-> FALSE, token |-> status]

\* the number of characters of a status token
TokenLen(status) ==
    CASE status = "stopped" -> 7
      [] status = "check_wait" -> 10
      [] status = "check" -> 5
      [] status = "download_wait" -> 13
      [] status = "downloading" -> 11
      [] status = "seed_wait" -> 9
      [] status = "seeding" -> 7
      [] status = "download_pending" -> 16
      [] OTHER -> 7

\* the number of characters of the status label
StatusTextLen(st) ==
    IF st.known
    THEN CASE st.token = "stopped" -> 12
           [] st.token = "check_wait" -> 18
           [] st.token = "check" -> 13
           [] st.token = "download_wait" -> 18
           [] st.token = "downloading" -> 14
           [] st.token = "seed_wait" -> 17
           [] OTHER -> 12
    ELSE 2 + TokenLen(st.token)

\* format_torrent_info: the seven lines of one item
format_torrent_info(torrent) ==
    [ name       |-> torrent.name,
      status     |-> StatusText(torrent.status),
      percent    |-> torrent.percent_done,
      downloaded |-> format_size(torrent.downloaded_ever),
      total      |-> format_size(torrent.total_size),
      down       |-> format_speed(torrent.rate_download),
      up         |-> format_speed(torrent.rate_upload),
      peers      |-> <<torrent.peers_connected, torrent.peers_getting_from_us,
                       torrent.peers_sending_to_us>> ]

\* len(format_torrent_info(torrent)); a name is kept as its length
InfoLen(info) ==
      (7 + info.name)
    + (9 + StatusTextLen(info.status))
    + (12 + Digits(info.percent) + 2)
    + (15 + SizeLen(info.downloaded) + SizeLen(info.total))
    + (20 + SpeedLen(info.down))
    + (18 + SpeedLen(info.up))
    + (30 + Digits(info.peers[1]) + Digits(info.peers[2]) + Digits(info.peers[3]))

(***************************************************************************)
(* Items of the daemon.  The daemon assigns the identifiers; they are not   *)
(* the positions in its list.                                              *)
(***************************************************************************)
DaemonId(i) == 10 + i

\* an item as the RPC library reports it
MkItem(id, name, status, percent) ==
    [ id |-> id, name |-> name, status |-> status, percent_done |-> percent,
      total_size |-> 1536, downloaded_ever |-> (1536 * percent) \div FullPercent,
      rate_download |-> 0, rate_upload |-> 0,
      peers_connected |-> 0, peers_getting_from_us |-> 0,
      peers_sending_to_us |-> 0 ]

\* every item list of at most max items over the given names, statuses and
\* completion fractions
ItemLists(names, statuses, completions, max) ==
    UNION { { [i \in 1..n |-> MkItem(DaemonId(i), f[i][1], f[i][2], f[i][3])] :
              f \in [1..n -> names \X statuses \X completions] } : n \in 0..max }

Range(s) == { s[i] : i \in DOMAIN s }

\* [t.id for t in torrents]
IdsOf(ts) == [i \in DOMAIN ts |-> ts[i].id]

(***************************************************************************)
(* Daemon Gateway (src/transmission_client.py).  An RPC is a record; a      *)
(* gateway operation returns what it issued, what it returned or raised,   *)
(* and the daemon's items afterwards.  A failing RPC changes nothing in    *)
(* the daemon.                                                             *)
(***************************************************************************)
Rpc(op, ids) == [op |-> op, ids |-> ids]
GetTorrents == Rpc("get_torrents", <<>>)

\* the daemon's bulk stop: exactly the listed items become stopped
StopTorrent(ts, ids) ==
    [i \in DOMAIN ts |->
        IF ts[i].id \in Range(ids) THEN [ts[i] EXCEPT !.status = "stopped"] ELSE ts[i]]

\* the daemon's bulk start: exactly the listed items leave stopped
StartTorrent(ts, ids) ==
    [i \in DOMAIN ts |->
        IF ts[i].id \in Range(ids)
        THEN [ts[i] EXCEPT !.status =
                 IF ts[i].percent_done < FullPercent THEN "downloading" ELSE "seeding"]
        ELSE ts[i]]

\* the daemon's add, started at once (paused=False)
AddedItem(ts, name) == MkItem(DaemonId(Len(ts) + 1), name, "downloading", 0)

\* _ensure_connection: reconnect only when the handle is absent
EnsureConnection(c) == IF c = "none" THEN "conn" ELSE c

Raised(err, rpcs, ts) == [ok |-> FALSE, err |-> err, value |-> <<>>, rpcs |-> rpcs, ts |-> ts]
Returned(value, rpcs, ts) == [ok |-> TRUE, err |-> "", value |-> value, rpcs |-> rpcs, ts |-> ts]

\* get_all_torrents
get_all_torrents(ts, fail) ==
    IF fail = "list"
    THEN Raised("list failed", <<GetTorrents>>, ts)
    ELSE Returned(ts, <<GetTorrents>>, ts)

\* mutant of ActiveStatuses: the six statuses of the comment above the list
ActiveStatusesSix == {"downloading", "seeding", "check", "check_wait",
                      "download_wait", "seed_wait"}

ActiveStatuses == {"downloading", "seeding", "check", "check_wait",
                   "download_wait", "seed_wait", "download_pending"}

\* get_active_torrents
get_active_torrents(ts, fail) ==
    IF fail = "list"
    THEN Raised("list failed", <<GetTorrents>>, ts)
    ELSE Returned(SelectSeq(ts, LAMBDA t : t.status \in ActiveStatuses),
                  <<GetTorrents>>, ts)

\* mutant of PauseIds: the status filter left out
PauseIdsEvery(ts) == IdsOf(ts)

\* mutant of PauseIds: only the downloading items are selected
PauseIdsDownloading(ts) == IdsOf(SelectSeq(ts, LAMBDA t : t.status = "downloading"))

\* torrent_ids of pause_all
PauseIds(ts) == IdsOf(SelectSeq(ts, LAMBDA t : t.status # "stopped"))

\* pause_all
pause_all(ts, fail) ==
    LET torrent_ids == PauseIds(ts)
        stop == Rpc("stop_torrent", torrent_ids)
    IN  IF fail = "list"
        THEN Raised("list failed", <<GetTorrents>>, ts)
        ELSE IF torrent_ids # <<>>
             THEN IF fail = "bulk"
                  THEN Raised("stop failed", <<GetTorrents, stop>>, ts)
                  ELSE Returned(Len(torrent_ids), <<GetTorrents, stop>>,
                                StopTorrent(ts, torrent_ids))
             ELSE Returned(Len(torrent_ids), <<GetTorrents>>, ts)

\* mutant of ResumeIds: the completion test left out
ResumeIdsStopped(ts) == IdsOf(SelectSeq(ts, LAMBDA t : t.status = "stopped"))

\* torrent_ids of resume_all
ResumeIds(ts) ==
    IdsOf(SelectSeq(ts, LAMBDA t : t.status = "stopped" /\ t.percent_done < FullPercent))

\* resume_all
resume_all(ts, fail) ==
    LET torrent_ids == ResumeIds(ts)
        start == Rpc("start_torrent", torrent_ids)
    IN  IF fail = "list"
        THEN Raised("list failed", <<GetTorrents>>, ts)
        ELSE IF torrent_ids # <<>>
             THEN IF fail = "bulk"
                  THEN Raised("start failed", <<GetTorrents, start>>, ts)
                  ELSE Returned(Len(torrent_ids), <<GetTorrents, start>>,
                                StartTorrent(ts, torrent_ids))
             ELSE Returned(Len(torrent_ids), <<GetTorrents>>, ts)

\* add_torrent: the daemon rejects malformed metadata
add_torrent(ts, file) ==
    IF file.malformed
    THEN Raised("invalid torrent", <<Rpc("add_torrent", <<>>)>>, ts)
    ELSE Returned(AddedItem(ts, file.name), <<Rpc("add_torrent", <<>>)>>,
                  Append(ts, AddedItem(ts, file.name)))

(***************************************************************************)
(* Reply texts (src/bot.py).  A text under construction is a header and    *)
(* the item blocks appended to it.                                         *)
(***************************************************************************)
\* torrent_text = f"{i}. {format_torrent_info(torrent)}\n"
Block(i, torrent) == [idx |-> i, info |-> format_torrent_info(torrent)]
BlockLen(b) == Digits(b.idx) + 2 + InfoLen(b.info) + 1

\* the blocks of enumerate(torrents, 1)
Blocks(ts) == [i \in DOMAIN ts |-> Block(i, ts[i])]

RECURSIVE BlocksLen(_)
BlocksLen(bs) == IF bs = <<>> THEN 0 ELSE BlockLen(Head(bs)) + BlocksLen(Tail(bs))

\* the header lines: with the count (whole message) and without (first part)
HeaderLen(header, n) ==
    CASE header = "all_count" -> 24 + Digits(n)
      [] header = "all" -> 21
      [] header = "active_count" -> 29 + Digits(n)
      [] header = "active" -> 26
      [] OTHER -> 0

Text(header, n, blocks) == [header |-> header, n |-> n, blocks |-> blocks]
TextLen(t) == HeaderLen(t.header, t.n) + BlocksLen(t.blocks)

RECURSIVE SplitLoopHard(_, _, _)
\* mutant of SplitLoop: the flush threshold raised to the hard limit
SplitLoopHard(blocks, parts, current_part) ==
    IF blocks = <<>>
    THEN [parts |-> parts, current_part |-> current_part]
    ELSE LET torrent_text == Head(blocks)
         IN  IF TextLen(current_part) + BlockLen(torrent_text) > HardLimit
             THEN SplitLoopHard(Tail(blocks), Append(parts, current_part),
                                Text("none", 0, <<torrent_text>>))
             ELSE SplitLoopHard(Tail(blocks), parts,
                                [current_part EXCEPT !.blocks = Append(@, torrent_text)])

RECURSIVE SplitLoop(_, _, _)
\* the loop over the items that fills parts and current_part
SplitLoop(blocks, parts, current_part) ==
    IF blocks = <<>>
    THEN [parts |-> parts, current_part |-> current_part]
    ELSE LET torrent_text == Head(blocks)
         IN  IF TextLen(current_part) + BlockLen(torrent_text) > SoftLimit
             THEN SplitLoop(Tail(blocks), Append(parts, current_part),
                            Text("none", 0, <<torrent_text>>))
             ELSE SplitLoop(Tail(blocks), parts,
                            [current_part EXCEPT !.blocks = Append(@, torrent_text)])

\* mutant of Paginate: the part being filled when the loop ends is not sent
PaginateNoLastPart(header, torrents) ==
    LET message == Text(header \o "_count", Len(torrents), Blocks(torrents))
    IN  IF TextLen(message) > HardLimit
        THEN SplitLoop(Blocks(torrents), <<>>, Text(header, 0, <<>>)).parts
        ELSE <<message>>

\* the texts sent for a non-empty list: the whole message, or its parts
Paginate(header, torrents) ==
    LET message == Text(header \o "_count", Len(torrents), Blocks(torrents))
    IN  IF TextLen(message) > HardLimit
        THEN LET r == SplitLoop(Blocks(torrents), <<>>, Text(header, 0, <<>>))
             IN  IF TextLen(r.current_part) > 0
                 THEN Append(r.parts, r.current_part)
                 ELSE r.parts
        ELSE <<message>>

\* a message of the transport: its kind and what it carries
Msg(kind, text, n, err) == [kind |-> kind, text |-> text, n |-> n, err |-> err]
NoText == Text("none", 0, <<>>)

RefusalMsg == Msg("refusal", NoText, 0, "")
WelcomeMsg == Msg("welcome", NoText, 0, "")
HelpMsg == Msg("help", NoText, 0, "")
NoDownloadsMsg == Msg("no_downloads", NoText, 0, "")
NoActiveMsg == Msg("no_active", NoText, 0, "")
ListMsg(text) == Msg("list", text, 0, "")
PausedMsg(count) == Msg("paused", NoText, count, "")
ResumedMsg(count) == Msg("resumed", NoText, count, "")
AddedMsg(torrent) == Msg("added", NoText, torrent.name, "")
ErrorMsg(err) == Msg("error", NoText, 0, err)

\* the messages of a list reply, one per text
ListMsgs(texts) == [i \in DOMAIN texts |-> ListMsg(texts[i])]

\* the number of characters of a message of the all and active commands
MsgLen(m) ==
    CASE m.kind = "list" -> TextLen(m.text)
      [] m.kind = "no_downloads" -> 14
      [] m.kind = "no_active" -> 23
      [] m.kind = "error" -> 10 + 11
      [] OTHER -> 0

(***************************************************************************)
(* State                                                                   *)
(***************************************************************************)
VARIABLES
    pc,          \* where the process is: "import", "main", "polling", "aborted"
    token,       \* whether TELEGRAM_BOT_TOKEN is set in the environment
    daemonUp,    \* whether the daemon accepts the first connection
    client,      \* TransmissionClient._client: "none" or "conn"
    constructed, \* how many times TransmissionClient was constructed
    notify,      \* the startup task: "none", "scheduled", "sent", "failed"
    sent,        \* how many startup notifications reached the operator
    torrents,    \* the daemon's items, in the daemon's order
    last,        \* the event handled last: what came in, what went out
    prevPause    \* whether the event before it was a pause that succeeded

vars == <<pc, token, daemonUp, client, constructed, notify, sent, torrents,
          last, prevPause>>

startup == <<pc, token, daemonUp, constructed, notify, sent>>

NoEvent == [kind |-> "none", sender |-> 0, outcome |-> "none", err |-> "",
            value |-> <<>>, replies |-> <<>>, rpcs |-> <<>>, before |-> <<>>]

\* the statuses of the whole-system specification
BootStatuses == {"stopped", "downloading", "seeding"}

\* the statuses of the pagination specification
PageStatuses == {"stopped", "downloading"}

\* the attachments an event may carry
Files == {[malformed |-> TRUE, name |-> 0]}
         \cup {[malformed |-> FALSE, name |-> n] : n \in NameLens}

(***************************************************************************)
(* Bootstrap (src/bot.py)                                                  *)
(***************************************************************************)
Init ==
    /\ pc = "import"
    /\ token \in BOOLEAN
    /\ daemonUp \in BOOLEAN
    /\ client = "none"
    /\ constructed = 0
    /\ notify = "none"
    /\ sent = 0
    /\ torrents \in ItemLists(NameLens, BootStatuses, Completions, MaxTorrents)
    /\ last = NoEvent
    /\ prevPause = FALSE

\* the module-level construction: __init__ connects at once and lets a
\* failure through, which ends the import
ConstructGateway ==
    /\ pc = "import"
    /\ constructed' = constructed + 1
    /\ client' = IF daemonUp THEN "conn" ELSE "none"
    /\ pc' = IF daemonUp THEN "main" ELSE "aborted"
    /\ UNCHANGED <<token, daemonUp, notify, sent, torrents, last, prevPause>>

\* mutant of Main: the token check left out
MainNoTokenCheck ==
    /\ pc = "main"
    /\ pc' = "polling"
    /\ notify' = "scheduled"
    /\ UNCHANGED <<token, daemonUp, client, constructed, sent, torrents, last,
                   prevPause>>

\* main: the token check, then the application, whose post_init schedules
\* the startup task before polling starts
Main ==
    /\ pc = "main"
    /\ pc' = IF token THEN "polling" ELSE "aborted"
    /\ notify' = IF token THEN "scheduled" ELSE notify
    /\ UNCHANGED <<token, daemonUp, client, constructed, sent, torrents, last,
                   prevPause>>

\* send_startup_message: one send, its failure logged
SendStartupMessage ==
    /\ pc = "polling"
    /\ notify = "scheduled"
    /\ \E delivered \in BOOLEAN :
          /\ notify' = IF delivered THEN "sent" ELSE "failed"
          /\ sent' = IF delivered THEN sent + 1 ELSE sent
    /\ UNCHANGED <<pc, token, daemonUp, client, constructed, torrents, last,
                   prevPause>>

(***************************************************************************)
(* Access Guard and Command Dispatcher (src/bot.py)                        *)
(***************************************************************************)
\* mutant of check_user_access: every sender is let in
check_user_access_any(user_id) == TRUE

\* check_user_access: whether the sender is the operator
check_user_access(user_id) == user_id = ALLOWED_USER_ID

\* One inbound event, handled to the end.  r is what the handler's body does
\* for the operator: the gateway's result and the replies.
Handled(kind, sender, r, replies) ==
    /\ pc = "polling"
    /\ IF check_user_access(sender)
       THEN /\ last' = [kind |-> kind, sender |-> sender,
                        outcome |-> IF r.ok THEN "ok" ELSE "error",
                        err |-> r.err, value |-> r.value,
                        replies |-> replies, rpcs |-> r.rpcs,
                        before |-> torrents]
            /\ torrents' = r.ts
       ELSE /\ last' = [kind |-> kind, sender |-> sender, outcome |-> "refused",
                        err |-> "", value |-> <<>>,
                        replies |-> <<RefusalMsg>>, rpcs |-> <<>>,
                        before |-> torrents]
            /\ torrents' = torrents
    /\ prevPause' = (last.kind = "pause" /\ last.outcome = "ok")
    /\ UNCHANGED startup

\* a handler body that calls no gateway operation
NoCall == Returned(<<>>, <<>>, torrents)

start ==
    /\ client' = client
    /\ \E sender \in Senders : Handled("start", sender, NoCall, <<WelcomeMsg>>)

help_command ==
    /\ client' = client
    /\ \E sender \in Senders : Handled("help", sender, NoCall, <<HelpMsg>>)

\* the try block and the except clause of show_all_torrents
AllReplies(r) ==
    IF r.ok
    THEN IF r.value = <<>>
         THEN <<NoDownloadsMsg>>
         ELSE ListMsgs(Paginate("all", r.value))
    ELSE <<ErrorMsg(r.err)>>

show_all_torrents ==
    \E sender \in Senders, fail \in {"none", "list"} :
        LET r == get_all_torrents(torrents, fail)
        IN  /\ Handled("all", sender, r, AllReplies(r))
            /\ client' = IF check_user_access(sender)
                         THEN EnsureConnection(client) ELSE client

\* the try block and the except clause of show_active_torrents
ActiveReplies(r) ==
    IF r.ok
    THEN IF r.value = <<>>
         THEN <<NoActiveMsg>>
         ELSE ListMsgs(Paginate("active", r.value))
    ELSE <<ErrorMsg(r.err)>>

show_active_torrents ==
    \E sender \in Senders, fail \in {"none", "list"} :
        LET r == get_active_torrents(torrents, fail)
        IN  /\ Handled("active", sender, r, ActiveReplies(r))
            /\ client' = IF check_user_access(sender)
                         THEN EnsureConnection(client) ELSE client

\* the try block and the except clause of the pause handler
PauseReplies(r) ==
    IF r.ok THEN <<PausedMsg(r.value)>> ELSE <<ErrorMsg(r.err)>>

pause_all_handler ==
    \E sender \in Senders, fail \in {"none", "list", "bulk"} :
        LET r == pause_all(torrents, fail)
        IN  /\ Handled("pause", sender, r, PauseReplies(r))
            /\ client' = IF check_user_access(sender)
                         THEN EnsureConnection(client) ELSE client

\* the try block and the except clause of the resume handler
ResumeReplies(r) ==
    IF r.ok THEN <<ResumedMsg(r.value)>> ELSE <<ErrorMsg(r.err)>>

resume_all_handler ==
    \E sender \in Senders, fail \in {"none", "list", "bulk"} :
        LET r == resume_all(torrents, fail)
        IN  /\ Handled("resume", sender, r, ResumeReplies(r))
            /\ client' = IF check_user_access(sender)
                         THEN EnsureConnection(client) ELSE client

\* the attachment download, then add_torrent
DownloadAndAdd(ts, file, fail) ==
    IF fail = "download"
    THEN Raised("download failed", <<>>, ts)
    ELSE add_torrent(ts, file)

\* mutant of TorrentFileReplies: the except clause only logs
TorrentFileRepliesSilent(r) ==
    IF r.ok THEN <<AddedMsg(r.value)>> ELSE <<>>

\* the try block and the except clause of handle_torrent_file
TorrentFileReplies(r) ==
    IF r.ok THEN <<AddedMsg(r.value)>> ELSE <<ErrorMsg(r.err)>>

handle_torrent_file ==
    \E sender \in Senders, file \in Files, fail \in {"none", "download"} :
        LET r == DownloadAndAdd(torrents, file, fail)
        IN  /\ Len(r.ts) <= MaxTorrents
            /\ Handled("document", sender, r, TorrentFileReplies(r))
            /\ client' = IF check_user_access(sender)
                         THEN EnsureConnection(client) ELSE client

(***************************************************************************)
(* Specifications                                                          *)
(***************************************************************************)
Next ==
    \/ ConstructGateway
    \/ Main
    \/ SendStartupMessage
    \/ start
    \/ help_command
    \/ show_all_torrents
    \/ show_active_torrents
    \/ pause_all_handler
    \/ resume_all_handler
    \/ handle_torrent_file

\* the whole system, from the import on
Spec == Init /\ [][Next]_vars

\* a process that has started: the gateway connected, the loop entered, the
\* startup task done
Started ==
    /\ pc = "polling"
    /\ token = TRUE
    /\ daemonUp = TRUE
    /\ client = "conn"
    /\ constructed = 1
    /\ notify = "sent"
    /\ sent = 1
    /\ last = NoEvent
    /\ prevPause = FALSE

\* the gateway's operations over every item list
InitGateway ==
    /\ Started
    /\ torrents \in ItemLists(NameLens, Statuses, Completions, MaxGatewayTorrents)

NextGateway ==
    \/ show_active_torrents
    \/ pause_all_handler
    \/ resume_all_handler

SpecGateway == InitGateway /\ [][NextGateway]_vars

\* the list replies over item lists of every block length
InitPage ==
    /\ Started
    /\ torrents \in ItemLists(PageNameLens, PageStatuses, PageCompletions, MaxPageTorrents)

NextPage ==
    \/ show_all_torrents
    \/ show_active_torrents

SpecPage == InitPage /\ [][NextPage]_vars

(***************************************************************************)
(* Properties                                                              *)
(***************************************************************************)
Operator(e) == e.sender = ALLOWED_USER_ID
Stranger(e) == e.kind # "none" /\ e.sender # ALLOWED_USER_ID

\* the RPCs of one name among those a handler issued
RpcsOf(rpcs, op) == SelectSeq(rpcs, LAMBDA c : c.op = op)

\* the RPCs that change the daemon's state
Changing(rpcs) == SelectSeq(rpcs, LAMBDA c : c.op # "get_torrents")

\* the k-th smallest member of a set of positions
Kth(positions, k) ==
    CHOOSE i \in positions : Cardinality({j \in positions : j <= i}) = k

\* the items at the given positions, in the list's order
Picked(ts, positions) ==
    [k \in 1..Cardinality(positions) |-> ts[Kth(positions, k)]]

RECURSIVE ConcatBlocks(_)
\* the item blocks of a sequence of messages, in send order
ConcatBlocks(msgs) ==
    IF msgs = <<>> THEN <<>>
    ELSE Head(msgs).text.blocks \o ConcatBlocks(Tail(msgs))

ListReply(e) ==
    /\ e.kind \in {"all", "active"}
    /\ Operator(e)
    /\ e.outcome = "ok"
    /\ e.value # <<>>

\* C1: an event from a sender other than the operator, whatever its kind and
\* whatever came before, gets exactly one reply, the refusal, and causes no
\* gateway call: no RPC is issued and the daemon's items are as they were.
C1_StrangerRefused ==
    Stranger(last) =>
        /\ last.outcome = "refused"
        /\ last.replies = <<RefusalMsg>>
        /\ last.rpcs = <<>>
        /\ torrents = last.before

\* C1 witness: a stranger's pause arrived while an item was running
C1_Witness ==
    /\ Stranger(last)
    /\ last.kind = "pause"
    /\ \E i \in DOMAIN torrents : torrents[i].status # "stopped"

\* C2: once the item list is fetched, pause_all issues exactly one bulk stop,
\* with exactly the identifiers of the items that are not stopped, and when
\* that succeeds the handler replies with their number; with no such item it
\* issues no bulk stop and the reply is the count 0.  Nothing is started.
C2_PauseAll ==
    (last.kind = "pause" /\ Operator(last) /\ last.err # "list failed") =>
        LET want == {i \in DOMAIN last.before : last.before[i].status # "stopped"}
            stops == RpcsOf(last.rpcs, "stop_torrent")
        IN  /\ Changing(last.rpcs) = stops
            /\ IF want = {}
               THEN /\ stops = <<>>
                    /\ last.replies = <<PausedMsg(0)>>
               ELSE /\ Len(stops) = 1
                    /\ stops[1].ids = IdsOf(Picked(last.before, want))
                    /\ last.outcome = "ok" =>
                          last.replies = <<PausedMsg(Cardinality(want))>>

\* C2 witness: a pause that stopped one of two items, the other one being
\* stopped already
C2_Witness ==
    /\ last.kind = "pause" /\ Operator(last) /\ last.outcome = "ok"
    /\ Len(last.before) = 2
    /\ last.replies = <<PausedMsg(1)>>

\* C3: once the item list is fetched, resume_all issues exactly one bulk
\* start, with exactly the identifiers of the stopped items whose completion
\* is below 1.0, and returns their number; a stopped item at 1.0 and every
\* item that is not stopped are left out, and with no item to start it
\* issues no bulk start and returns 0.
C3_ResumeAll ==
    (last.kind = "resume" /\ Operator(last) /\ last.err # "list failed") =>
        LET want == {i \in DOMAIN last.before :
                        /\ last.before[i].status = "stopped"
                        /\ last.before[i].percent_done < FullPercent}
            starts == RpcsOf(last.rpcs, "start_torrent")
        IN  /\ Changing(last.rpcs) = starts
            /\ IF want = {}
               THEN /\ starts = <<>>
                    /\ last.outcome = "ok"
                    /\ last.value = 0
               ELSE /\ Len(starts) = 1
                    /\ starts[1].ids = IdsOf(Picked(last.before, want))
                    /\ last.outcome = "ok" => last.value = Cardinality(want)

\* C3 witness: a resume over a stopped finished item and a stopped
\* unfinished one started exactly one
C3_Witness ==
    /\ last.kind = "resume" /\ Operator(last) /\ last.outcome = "ok"
    /\ last.value = 1
    /\ \E i \in DOMAIN last.before :
          /\ last.before[i].status = "stopped"
          /\ last.before[i].percent_done = FullPercent

C5_FailureReported ==
    (Operator(last) /\ last.outcome = "error") =>
        /\ last.err # ""
        /\ last.replies = <<ErrorMsg(last.err)>>
        /\ pc = "polling"
        /\ client = "conn"
        /\ torrents = last.before

\* C5 witness: the daemon rejected a malformed attachment
C5_Witness ==
    /\ Operator(last)
    /\ last.kind = "document"
    /\ last.outcome = "error"
    /\ last.err = "invalid torrent"

\* C6: every message sent in reply to the all and active commands is at most
\* 4096 characters long.
C6_HardLimit ==
    (last.kind \in {"all", "active"}) =>
        \A k \in DOMAIN last.replies : MsgLen(last.replies[k]) <= HardLimit

\* C7 as stated: whenever the header plus all item blocks exceeds 4000
\* characters, the reply is split into at least two messages, each of at
\* most 4000 characters.
C7_SplitAbove4000 ==
    ListReply(last) =>
        LET header == IF last.kind = "all" THEN "all_count" ELSE "active_count"
            whole == Text(header, Len(last.value), Blocks(last.value))
        IN  TextLen(whole) > SoftLimit =>
               /\ Len(last.replies) >= 2
               /\ \A k \in DOMAIN last.replies :
                     MsgLen(last.replies[k]) <= SoftLimit

\* the pieces a message was built from: its header, if any, and its blocks
Pieces(m) == (IF m.text.header = "none" THEN 0 ELSE 1) + Len(m.text.blocks)

\* C7 amended: the reply is split exactly when the whole message, the header
\* with the item count plus all item blocks, exceeds 4096 characters.  When
\* it is split there are at least two messages, a message ends exactly where
\* appending the next block would push it past 4000 characters, and a
\* message longer than 4000 characters is a single item block.
C7_SplitAbove4096 ==
    ListReply(last) =>
        LET header == IF last.kind = "all" THEN "all_count" ELSE "active_count"
            whole == Text(header, Len(last.value), Blocks(last.value))
            msgs == last.replies
        IN  IF TextLen(whole) <= HardLimit
            THEN msgs = <<ListMsg(whole)>>
            ELSE /\ Len(msgs) >= 2
                 /\ \A k \in DOMAIN msgs :
                       /\ Pieces(msgs[k]) >= 1
                       /\ Pieces(msgs[k]) >= 2 => MsgLen(msgs[k]) <= SoftLimit
                       /\ k < Len(msgs) =>
                             MsgLen(msgs[k]) + BlockLen(msgs[k + 1].text.blocks[1])
                                 > SoftLimit

\* C7 witness: a split reply of two messages within 4000 characters, one of
\* them holding two blocks
C7_Witness ==
    /\ ListReply(last)
    /\ Len(last.replies) = 2
    /\ \A k \in DOMAIN last.replies : MsgLen(last.replies[k]) <= SoftLimit
    /\ \E k \in DOMAIN last.replies : Len(last.replies[k].text.blocks) = 2

\* C8: for a non-empty list, the item blocks of the messages sent, taken in
\* send order, are the formatted blocks of the listed items in the list's
\* order, each once and whole, under its 1-based index, split or not.
C8_BlocksReproduced ==
    ListReply(last) =>
        /\ last.kind = "all" => last.value = last.before
        /\ \A k \in DOMAIN last.replies : last.replies[k].kind = "list"
        /\ ConcatBlocks(last.replies) =
              [i \in 1..Len(last.value) |->
                  [idx |-> i, info |-> format_torrent_info(last.value[i])]]

\* C8 witness: a split reply to the active command that lists fewer items
\* than the daemon has
C8_Witness ==
    /\ ListReply(last)
    /\ last.kind = "active"
    /\ Len(last.replies) >= 2
    /\ Len(last.value) < Len(last.before)

\* C9: the event loop is entered, and a handler has run, only with the token
\* present and the gateway's first connection made; with the token absent or
\* the connection refused the process has aborted and no handler ever ran.
\* The gateway is constructed once, the startup notification is sent at most
\* once, and its failure leaves the loop running.
C9_StartupOrder ==
    /\ (pc = "polling" \/ last.kind # "none") =>
          (token /\ daemonUp /\ client = "conn" /\ pc = "polling")
    /\ (pc \in {"main", "polling", "aborted"}) =>
          (~(token /\ daemonUp) => (pc # "polling" /\ last = NoEvent))
    /\ constructed <= 1
    /\ pc # "import" => constructed = 1
    /\ sent <= 1
    /\ notify # "none" => pc = "polling"
    /\ notify = "sent" <=> sent = 1

\* C9 witness: a handler ran after the startup notification failed
C9_Witness ==
    /\ pc = "polling"
    /\ notify = "failed"
    /\ sent = 0
    /\ last.kind = "all"
    /\ last.outcome = "ok"

\* C10: after a pause that succeeded and, directly after it, a resume that
\* succeeded, an item is not stopped exactly when its completion is below
\* 1.0; and a pause directly after a pause that succeeded returns 0 and
\* issues no bulk stop.
C10_PauseThenResume ==
    /\ (prevPause /\ last.kind = "resume" /\ Operator(last) /\ last.outcome = "ok") =>
          \A i \in DOMAIN torrents :
              torrents[i].status # "stopped" <=> torrents[i].percent_done < FullPercent
    /\ (prevPause /\ last.kind = "pause" /\ Operator(last)
            /\ last.err # "list failed") =>
          /\ last.outcome = "ok"
          /\ last.value = 0
          /\ Changing(last.rpcs) = <<>>

\* C10 witness: after pause and resume one finished item stays stopped next
\* to an unfinished one that runs
C10_Witness ==
    /\ prevPause /\ last.kind = "resume" /\ Operator(last) /\ last.outcome = "ok"
    /\ \E i \in DOMAIN torrents :
          torrents[i].status = "stopped" /\ torrents[i].percent_done = FullPercent
    /\ \E i \in DOMAIN torrents :
          torrents[i].status # "stopped" /\ torrents[i].percent_done < FullPercent

====
